---- MODULE Spec2Model ----
(***************************************************************************)
(* A model of the jishaku root command group (task registry: tasks and     *)
(* cancel) and of the voice command group (guard chain and playback        *)
(* delegation).                                                            *)
(*                                                                         *)
(* Every command handler is one atomic action: the handlers suspend only   *)
(* at their final ctx.send, after all of their reads and writes.           *)
(***************************************************************************)
EXTENDS Integers, Sequences, FiniteSets, TLC

\* ------------------------------------------------------------------ bounds
\* Number of task records ever submitted in one behaviour.
MaxTasks == 3
\* Longest argument text handed to "jsk cancel".
MaxArgLen == 2
\* Longest URI text handed to "jsk voice play".
MaxUriLen == 2
\* Most handlers suspended at a message send at one time.
MaxPending == 2
\* Most shards an automatically sharded bot runs.
MaxShards == 22
\* The percentages handed to "jsk voice volume" are the multiples of ten
\* from -10 * MaxTens to 10 * MaxTens.
MaxTens == 15

\* ------------------------------------------------------------- vocabulary
\* Python's None, and the report of an operation that reports nothing.
None == [none |-> TRUE]
Silent == "-"

\* Characters an argument of "jsk cancel" is made of.
Alphabet == {"-", "1", "2", "~", "a"}
Digits == {"1", "2"}

\* The argument texts a user can type: non-empty (the parameter is required).
Arguments == UNION {[1..n -> Alphabet] : n \in 1..MaxArgLen}

\* Characters a URI is made of.
UriAlphabet == {"<", ">", "a"}
Uris == UNION {[1..n -> UriAlphabet] : n \in 1..MaxUriLen}

Percentages == {10 * k : k \in -MaxTens..MaxTens}

Channels == {"general", "music"}

\* discord.opus: loaded, or not loaded and then either without a
\* _load_default, or with one that fails, or with one that loads it.
OpusStates == {"loaded", "no _load_default", "default fails", "default loads"}

\* What a join destination can convert to: a voice channel, a member (who
\* is in a voice channel or in none), or nothing at all, in which case the
\* author (a member) is used.
Destinations ==
    [type : {"VoiceChannel"}, channel : Channels]
        \cup [type : {"Member", "None"}, channel : Channels \cup {"nowhere"}]

VARIABLES
    tasks,       \* Feature.tasks: the deque of live CommandTask records
    task_count,  \* Feature.task_count: the counter indexes are drawn from
    cancelled,   \* per cancellation handle, how often .cancel() was called
    op,          \* the operation that ran last, with its argument
    msg,         \* what it reported: the text sent, or the error raised
    reply,       \* the value interpolated into the report
    calls,       \* the calls it made on its collaborators, in order
    libs,        \* has_nacl, and whether opus is loaded or can be
    voice_client, \* ctx.guild.voice_client: None or the voice client
    hidden,      \* self.jsk.hidden: whether help leaves the command out
    running,     \* the handles whose unit of work has not ended yet
    pending      \* the handlers suspended in their ctx.send, oldest first

registry == <<tasks, task_count, cancelled, running>>
outcome == <<op, msg, reply, calls>>
voice == <<libs, voice_client>>
root == <<hidden, pending>>
vars == <<tasks, task_count, cancelled, op, msg, reply, calls,
          libs, voice_client, hidden, running, pending>>

\* ------------------------------------------------------------- conversion
DigitValue(c) == CASE c = "1" -> 1 [] c = "2" -> 2

RECURSIVE DecimalValue(_)
DecimalValue(s) ==
    IF s = <<>> THEN 0
    ELSE 10 * DecimalValue(SubSeq(s, 1, Len(s) - 1)) + DigitValue(s[Len(s)])

\* int(argument) succeeds on an optional sign followed by one or more digits.
IsIntLiteral(s) ==
    LET body == IF s[1] = "-" THEN Tail(s) ELSE s
    IN  /\ body # <<>>
        /\ \A k \in 1..Len(body) : body[k] \in Digits

IntValue(s) ==
    IF s[1] = "-" THEN 0 - DecimalValue(Tail(s)) ELSE DecimalValue(s)

\* typing.Union[int, str]: the int converter is tried first, str is the
\* fallback that always succeeds.
Convert(argument) ==
    IF IsIntLiteral(argument)
    THEN [type |-> "int", value |-> IntValue(argument)]
    ELSE [type |-> "str", value |-> argument]

Tilde == [type |-> "str", value |-> <<"~">>]

\* index == "~"
IsTilde_anyString(index) == index.type = "str"
IsTilde(index) == index = Tilde

\* not self.tasks
Empty_never(seq) == FALSE
Empty(seq) == seq = <<>>

\* --------------------------------------------------------- deque helpers
CommandTask(index) == [index |-> index, task |-> index]

\* discord.utils.get(iterable, index=i): the first element whose attribute
\* equals i, or None.
Get_byPosition(seq, i) == IF i \in 1..Len(seq) THEN seq[i] ELSE None
Get(seq, i) ==
    LET hits == {k \in 1..Len(seq) : seq[k].index = i}
    IN  IF hits = {} THEN None
        ELSE seq[CHOOSE k \in hits : \A j \in hits : k <= j]

\* deque.remove(value): deletes the first occurrence of value.
Remove(seq, value) ==
    LET k == CHOOSE k \in 1..Len(seq) :
                 /\ seq[k] = value
                 /\ \A j \in 1..(k - 1) : seq[j] # value
    IN  SubSeq(seq, 1, k - 1) \o SubSeq(seq, k + 1, Len(seq))

\* deque.pop(): removes and returns the rightmost element.
Pop_left(seq) == SubSeq(seq, 2, Len(seq))
Pop(seq) == SubSeq(seq, 1, Len(seq) - 1)
Last(seq) == seq[Len(seq)]

\* task.task.cancel() on every record of seq.
CancelEach_skipLast(seq, counts) ==
    [h \in DOMAIN counts |->
        counts[h] + Cardinality({k \in 1..(Len(seq) - 1) : seq[k].task = h})]
CancelEach(seq, counts) ==
    [h \in DOMAIN counts |->
        counts[h] + Cardinality({k \in 1..Len(seq) : seq[k].task = h})]

\* deque.clear()
Clear_not(seq) == seq
Clear(seq) == <<>>

\* The indexes the paginator lines are built from, in iteration order.
TaskLines_reversed(seq) == [k \in 1..Len(seq) |-> seq[Len(seq) + 1 - k].index]
TaskLines(seq) == [k \in 1..Len(seq) |-> seq[k].index]

Report(o, m, r, c) ==
    /\ op' = o
    /\ msg' = m
    /\ reply' = r
    /\ calls' = c

\* ------------------------------------------------------------------ Init
Init ==
    /\ tasks = <<>>
    /\ task_count = 0
    /\ cancelled = [h \in 1..MaxTasks |-> 0]
    /\ op = [name |-> "start", arg |-> <<>>]
    /\ msg = Silent
    /\ reply = None
    /\ calls = <<>>
    /\ libs = [has_nacl |-> TRUE, opus |-> "loaded"]
    /\ voice_client = None
    /\ hidden = FALSE
    /\ running = {}
    /\ pending = <<>>

\* The same start, on a host with any combination of the voice libraries.
VoiceInit ==
    /\ tasks = <<>>
    /\ task_count = 0
    /\ cancelled = [h \in 1..MaxTasks |-> 0]
    /\ op = [name |-> "start", arg |-> <<>>]
    /\ msg = Silent
    /\ reply = None
    /\ calls = <<>>
    /\ libs \in [has_nacl : BOOLEAN, opus : OpusStates]
    /\ voice_client = None
    /\ hidden = FALSE
    /\ running = {}
    /\ pending = <<>>

\* ------------------------------------------------------ registry upkeep
\* Feature.submit on entry: a long-running invocation registers itself.
Submit ==
    /\ task_count < MaxTasks
    /\ task_count' = task_count + 1
    /\ tasks' = Append(tasks, CommandTask(task_count + 1))
    /\ running' = running \cup {task_count + 1}
    /\ UNCHANGED <<cancelled, voice, root>>
    /\ Report([name |-> "submit", arg |-> <<>>], Silent, None, <<>>)

\* Feature.submit on exit: the invocation ends and drops its own record if
\* it is still registered.
Complete(k) ==
    /\ k \in 1..Len(tasks)
    /\ tasks' = Remove(tasks, tasks[k])
    /\ running' = running \ {tasks[k].task}
    /\ UNCHANGED <<task_count, cancelled, voice, root>>
    /\ Report([name |-> "complete", arg |-> <<>>], Silent, None, <<>>)

\* ------------------------------------------------------------ jsk tasks
\* The handler up to the send it ends with.
jsk_tasks_body ==
    /\ UNCHANGED <<registry, voice, hidden>>
    /\ IF Empty(tasks)
       THEN Report([name |-> "tasks", arg |-> <<>>],
                   "No currently running tasks.", None, <<"send">>)
       ELSE Report([name |-> "tasks", arg |-> <<>>],
                   "paginator", [lines |-> TaskLines(tasks)], <<"send_to">>)

\* The handler run to its end with no other handler in between.
jsk_tasks == jsk_tasks_body /\ UNCHANGED pending

\* ----------------------------------------------------------- jsk cancel
\* The handler up to the send it ends with.
jsk_cancel_body(argument) ==
    LET index == Convert(argument)
        me == [name |-> "cancel", arg |-> argument]
    IN
    /\ UNCHANGED <<voice, hidden>>
    /\ IF Empty(tasks) THEN
           /\ UNCHANGED registry
           /\ Report(me, "No tasks to cancel.", None, <<"send">>)
       ELSE IF IsTilde(index) THEN
           /\ cancelled' = CancelEach(tasks, cancelled)
           /\ tasks' = Clear(tasks)
           /\ UNCHANGED <<task_count, running>>
           /\ Report(me, "Cancelled N tasks.", [count |-> Len(tasks)],
                     <<"cancel", "clear", "send">>)
       ELSE IF index.type = "str" THEN
           /\ UNCHANGED registry
           /\ Report(me, "BadArgument", None, <<>>)
       ELSE IF index.value = -1 /\ tasks = <<>> THEN
           \* deque.pop() on an empty deque raises IndexError
           /\ UNCHANGED registry
           /\ Report(me, "IndexError", None, <<"pop">>)
       ELSE IF index.value = -1 THEN
           /\ tasks' = Pop(tasks)
           /\ cancelled' = CancelEach(<<Last(tasks)>>, cancelled)
           /\ UNCHANGED <<task_count, running>>
           /\ Report(me, "Cancelled task", [index |-> Last(tasks).index],
                     <<"pop", "cancel", "send">>)
       ELSE
           LET task == Get(tasks, index.value) IN
           IF task # None THEN
               /\ tasks' = Remove(tasks, task)
               /\ cancelled' = CancelEach(<<task>>, cancelled)
               /\ UNCHANGED <<task_count, running>>
               /\ Report(me, "Cancelled task", [index |-> task.index],
                         <<"get", "remove", "cancel", "send">>)
           ELSE
               /\ UNCHANGED registry
               /\ Report(me, "Unknown task.", None, <<"get", "send">>)

\* The handler run to its end with no other handler in between.
jsk_cancel(argument) == jsk_cancel_body(argument) /\ UNCHANGED pending

\* ------------------------------------------------------------------ Next
Next ==
    \/ Submit
    \/ \E k \in 1..MaxTasks : Complete(k)
    \/ jsk_tasks
    \/ \E argument \in Arguments : jsk_cancel(argument)

Spec == Init /\ [][Next]_vars

\* =========================================================== voice client
\* Volumes are kept in hundredths: One stands for the float 1.0.
One == 100

NotConnected == "Not connected to a voice channel in this guild."
NotPlaying == "The voice client in this guild is not playing anything."
Unsupported == "This source doesn't support adjusting volume."

\* VoiceClient.is_connected()
is_connected(v) == v.connected
\* VoiceClient.is_playing(): a player exists, is resumed and has not ended.
is_playing(v) == v.player = "playing"
\* VoiceClient.is_paused(): a player exists, is not resumed, has not ended.
is_paused(v) == v.player = "paused"

\* VoiceClient.stop(): stops the player, if any, and forgets it.
Stop(v) == [v EXCEPT !.player = "idle", !.source = None]
\* VoiceClient.pause() / resume(): act on the player, if any.
Pause(v) == IF v.player = "playing" THEN [v EXCEPT !.player = "paused"] ELSE v
Resume(v) == IF v.player = "paused" THEN [v EXCEPT !.player = "playing"] ELSE v
\* VoiceClient.play(source): a new player for source replaces the old one.
Play(v, source) == [v EXCEPT !.player = "playing", !.source = source]

\* discord.PCMVolumeTransformer(discord.FFmpegPCMAudio(uri)), volume 1.0
PCMVolumeTransformer(uri) ==
    [type |-> "PCMVolumeTransformer", volume |-> One, uri |-> uri]
\* Any audio source without a volume attribute.
AudioSource == [type |-> "AudioSource"]

\* isinstance(source, discord.PCMVolumeTransformer)
SupportsVolume_always(source) == TRUE
SupportsVolume(source) == source.type = "PCMVolumeTransformer"

\* source.volume = volume: sets the attribute, whatever the object is.
SetVolume(source, volume) ==
    [f \in DOMAIN source \cup {"volume"} |->
        IF f = "volume" THEN volume ELSE source[f]]

Min(a, b) == IF a <= b THEN a ELSE b
Max(a, b) == IF a >= b THEN a ELSE b

\* max(0.0, min(1.0, percentage / 100)), in hundredths
Clamp_noFloor(percentage) == Min(One, (percentage * One) \div 100)
Clamp(percentage) == Max(0, Min(One, (percentage * One) \div 100))

\* str.lstrip("<") and str.rstrip(">"): every leading "<", every trailing ">"
LStrip_once(uri) ==
    IF uri # <<>> /\ Head(uri) = "<" THEN Tail(uri) ELSE uri

RECURSIVE LStrip(_)
LStrip(uri) ==
    IF uri # <<>> /\ Head(uri) = "<" THEN LStrip(Tail(uri)) ELSE uri

RECURSIVE RStrip(_)
RStrip(uri) ==
    IF uri # <<>> /\ uri[Len(uri)] = ">"
    THEN RStrip(SubSeq(uri, 1, Len(uri) - 1))
    ELSE uri

\* ------------------------------------------------------------ the guards
\* Each guard yields the message it sent (Silent when it passed), the
\* calls it made, and the state of the libraries it leaves behind.
Check(sent, made) == [sent |-> sent, calls |-> made]

voice_check ==
    IF ~libs.has_nacl THEN
        Check("Voice cannot be used because PyNaCl is not loaded.",
              <<"send">>)
    ELSE IF libs.opus # "loaded" THEN
        IF libs.opus = "no _load_default" THEN
            Check("Voice cannot be used because libopus is not loaded.",
                  <<"is_loaded", "send">>)
        ELSE IF libs.opus = "default fails" THEN
            Check("Voice cannot be used because libopus is not loaded and attempting to load the default failed.",
                  <<"is_loaded", "_load_default", "send">>)
        ELSE Check(Silent, <<"is_loaded", "_load_default">>)
    ELSE Check(Silent, <<"is_loaded">>)

\* opus._load_default() loads the library as a side effect of the check.
libs_after_voice_check ==
    IF libs.has_nacl /\ libs.opus = "default loads"
    THEN [libs EXCEPT !.opus = "loaded"]
    ELSE libs

connected_check_onlyNone ==
    IF voice_client = None THEN Check(NotConnected, <<"send">>)
    ELSE Check(Silent, <<>>)

connected_check ==
    IF voice_client = None THEN Check(NotConnected, <<"send">>)
    ELSE IF ~is_connected(voice_client)
    THEN Check(NotConnected, <<"is_connected", "send">>)
    ELSE Check(Silent, <<"is_connected">>)

playing_check_skipsConnected ==
    IF voice_client = None \/ ~is_playing(voice_client)
    THEN Check(NotPlaying, <<"is_playing", "send">>)
    ELSE Check(Silent, <<"is_playing">>)

playing_check ==
    LET check == connected_check IN
    IF check.sent # Silent THEN check
    ELSE IF ~is_playing(voice_client)
    THEN Check(NotPlaying, check.calls \o <<"is_playing", "send">>)
    ELSE Check(Silent, check.calls \o <<"is_playing">>)

Abort(me, check) ==
    /\ UNCHANGED voice
    /\ Report(me, check.sent, None, check.calls)

\* ------------------------------------------------------------ jsk voice
jsk_voice ==
    LET me == [name |-> "voice", arg |-> <<>>]
        check == voice_check
    IN
    /\ UNCHANGED <<registry, root, voice_client>>
    /\ libs' = libs_after_voice_check
    /\ IF check.sent # Silent THEN Report(me, check.sent, None, check.calls)
       ELSE IF voice_client = None
       THEN Report(me, "Not connected.", None, check.calls \o <<"send">>)
       ELSE IF ~is_connected(voice_client)
       THEN Report(me, "Not connected.", None,
                   check.calls \o <<"is_connected", "send">>)
       ELSE Report(me, "Connected to",
                   [channel |-> voice_client.channel,
                    state |-> IF is_paused(voice_client) THEN "paused"
                              ELSE IF is_playing(voice_client) THEN "playing"
                              ELSE "idle"],
                   check.calls \o <<"is_connected", "is_paused">>
                       \o (IF is_paused(voice_client) THEN <<>>
                           ELSE <<"is_playing">>)
                       \o <<"send">>)

\* ------------------------------------------------------- jsk voice join
\* if voice: a voice client object is truthy, connected or not.
HasVoice_connected(v) == v # None /\ v.connected
HasVoice(v) == v # None

jsk_vc_join(destination) ==
    LET me == [name |-> "join", arg |-> <<destination>>]
        check == voice_check
    IN
    /\ UNCHANGED <<registry, root>>
    /\ libs' = libs_after_voice_check
    /\ IF check.sent # Silent THEN
           /\ UNCHANGED voice_client
           /\ Report(me, check.sent, None, check.calls)
       ELSE IF destination.type # "VoiceChannel"
                /\ destination.channel = "nowhere" THEN
           /\ UNCHANGED voice_client
           /\ Report(me, "Member has no voice channel.", None,
                     check.calls \o <<"send">>)
       ELSE IF HasVoice(voice_client) THEN
           /\ voice_client' =
                  [voice_client EXCEPT !.channel = destination.channel]
           /\ Report(me, "Connected to", [channel |-> destination.channel],
                     check.calls \o <<"move_to", "send">>)
       ELSE
           /\ voice_client' = [connected |-> TRUE,
                               channel |-> destination.channel,
                               player |-> "idle",
                               source |-> None]
           /\ Report(me, "Connected to", [channel |-> destination.channel],
                     check.calls \o <<"connect", "send">>)

\* ------------------------------------------------- jsk voice disconnect
jsk_vc_disconnect ==
    LET me == [name |-> "disconnect", arg |-> <<>>]
        check == connected_check
    IN
    /\ UNCHANGED <<registry, root>>
    /\ IF check.sent # Silent THEN Abort(me, check)
       ELSE
           /\ voice_client' = None
           /\ UNCHANGED libs
           /\ Report(me, "Disconnected from",
                     [channel |-> voice_client.channel],
                     check.calls \o <<"disconnect", "send">>)

\* ------------------------------------------------------- jsk voice stop
jsk_vc_stop ==
    LET me == [name |-> "stop", arg |-> <<>>]
        check == playing_check
    IN
    /\ UNCHANGED <<registry, root>>
    /\ IF check.sent # Silent THEN Abort(me, check)
       ELSE
           /\ voice_client' = Stop(voice_client)
           /\ UNCHANGED libs
           /\ Report(me, "Stopped playing audio",
                     [channel |-> voice_client.channel],
                     check.calls \o <<"stop", "send">>)

\* ------------------------------------------------------ jsk voice pause
jsk_vc_pause ==
    LET me == [name |-> "pause", arg |-> <<>>]
        check == playing_check
    IN
    /\ UNCHANGED <<registry, root>>
    /\ IF check.sent # Silent THEN Abort(me, check)
       ELSE IF is_paused(voice_client) THEN
           /\ UNCHANGED voice
           /\ Report(me, "Audio is already paused.", None,
                     check.calls \o <<"is_paused", "send">>)
       ELSE
           /\ voice_client' = Pause(voice_client)
           /\ UNCHANGED libs
           /\ Report(me, "Paused audio", [channel |-> voice_client.channel],
                     check.calls \o <<"is_paused", "pause", "send">>)

\* ----------------------------------------------------- jsk voice resume
jsk_vc_resume ==
    LET me == [name |-> "resume", arg |-> <<>>]
        check == playing_check
    IN
    /\ UNCHANGED <<registry, root>>
    /\ IF check.sent # Silent THEN Abort(me, check)
       ELSE IF ~is_paused(voice_client) THEN
           /\ UNCHANGED voice
           /\ Report(me, "Audio is not paused.", None,
                     check.calls \o <<"is_paused", "send">>)
       ELSE
           /\ voice_client' = Resume(voice_client)
           /\ UNCHANGED libs
           /\ Report(me, "Resumed audio", [channel |-> voice_client.channel],
                     check.calls \o <<"is_paused", "resume", "send">>)

\* ----------------------------------------------------- jsk voice volume
jsk_vc_volume(percentage) ==
    LET me == [name |-> "volume", arg |-> <<percentage>>]
        check == playing_check
        volume == Clamp(percentage)
    IN
    /\ UNCHANGED <<registry, root>>
    /\ IF check.sent # Silent THEN Abort(me, check)
       ELSE IF ~SupportsVolume(voice_client.source) THEN
           /\ UNCHANGED voice
           /\ Report(me, Unsupported, None, check.calls \o <<"send">>)
       ELSE
           /\ voice_client' =
                  [voice_client EXCEPT !.source = SetVolume(@, volume)]
           /\ UNCHANGED libs
           /\ Report(me, "Volume set to", [volume |-> volume],
                     check.calls \o <<"volume", "send">>)

\* ------------------------------------------------------- jsk voice play
jsk_vc_play(uri) ==
    LET me == [name |-> "play", arg |-> uri]
        check == connected_check
        stopped == IF is_playing(voice_client)
                   THEN Stop(voice_client) ELSE voice_client
        stripped == RStrip(LStrip(uri))
    IN
    /\ UNCHANGED <<registry, root>>
    /\ IF check.sent # Silent THEN Abort(me, check)
       ELSE
           /\ voice_client' = Play(stopped, PCMVolumeTransformer(stripped))
           /\ UNCHANGED libs
           /\ Report(me, "Playing in", [channel |-> voice_client.channel],
                     check.calls \o <<"is_playing">>
                         \o (IF is_playing(voice_client)
                             THEN <<"stop">> ELSE <<>>)
                         \o <<"play", "send">>)

\* ------------------------------------------ what happens around the cog
Event(name) == Report([name |-> name, arg |-> <<>>], Silent, None, <<>>)

\* The source runs out: the player ends on its own.
SourceEnds ==
    /\ voice_client # None
    /\ voice_client.player # "idle"
    /\ voice_client' = [voice_client EXCEPT !.player = "idle"]
    /\ UNCHANGED <<registry, root, libs>>
    /\ Event("source ends")

\* The voice websocket drops, or comes back.
ConnectionChanges ==
    /\ voice_client # None
    /\ voice_client' =
           [voice_client EXCEPT !.connected = ~voice_client.connected]
    /\ UNCHANGED <<registry, root, libs>>
    /\ Event("connection changes")

\* Another part of the bot plays a source of its own on the voice client.
OtherPlay ==
    /\ voice_client # None
    /\ is_connected(voice_client)
    /\ ~is_playing(voice_client)
    /\ voice_client' = Play(voice_client, AudioSource)
    /\ UNCHANGED <<registry, root, libs>>
    /\ Event("other play")

VoiceNext ==
    \/ jsk_voice
    \/ \E destination \in Destinations : jsk_vc_join(destination)
    \/ jsk_vc_disconnect
    \/ jsk_vc_stop
    \/ jsk_vc_pause
    \/ jsk_vc_resume
    \/ \E percentage \in Percentages : jsk_vc_volume(percentage)
    \/ \E uri \in Uris : jsk_vc_play(uri)
    \/ SourceEnds
    \/ ConnectionChanges
    \/ OtherPlay

VoiceSpec == VoiceInit /\ [][VoiceNext]_vars

\* ------------------------------------------------- playing masked links
\* A URI typed between the angle brackets that suppress its embed.
Wrap(uri) == <<"<">> \o uri \o <<">">>
PlayUris == Uris \cup {Wrap(uri) : uri \in Uris}

PlayNext ==
    \/ \E destination \in Destinations : jsk_vc_join(destination)
    \/ \E uri \in PlayUris : jsk_vc_play(uri)
    \/ jsk_vc_stop
    \/ jsk_vc_disconnect

PlaySpec == Init /\ [][PlayNext]_vars

\* ===================================================== handlers in flight
\* Handlers run on one event loop and give way to each other only where
\* they await: jsk cancel and jsk tasks await nothing but the send they
\* end with.  pending holds the handlers suspended at that send, each with
\* the handles it has signalled.

\* The cancel targets tried while other handlers are in flight.
Targets == {<<"~">>, <<"-", "1">>} \cup {<<d>> : d \in Digits}

\* The step suspends at a send.
Awaits(c) == \E k \in 1..Len(c) : c[k] \in {"send", "send_to"}

Suspended(name, signalled) == [name |-> name, signalled |-> signalled]

cancel_suspends(argument) ==
    /\ Len(pending) < MaxPending
    /\ jsk_cancel_body(argument)
    /\ pending' =
           IF Awaits(calls')
           THEN Append(pending,
                       Suspended("cancel",
                                 {h \in DOMAIN cancelled :
                                      cancelled'[h] > cancelled[h]}))
           ELSE pending

tasks_suspends ==
    /\ Len(pending) < MaxPending
    /\ jsk_tasks_body
    /\ pending' = Append(pending, Suspended("tasks", {}))

\* return await ctx.send(...): the handler waits for the send and for
\* nothing else.
SendDone_joined(handler) == handler.signalled \cap running = {}
SendDone(handler) == TRUE

\* The send of the i-th suspended handler completes and the handler
\* returns.
send_returns(i) ==
    /\ i \in 1..Len(pending)
    /\ SendDone(pending[i])
    /\ pending' = SubSeq(pending, 1, i - 1)
                      \o SubSeq(pending, i + 1, Len(pending))
    /\ UNCHANGED <<registry, voice, hidden>>
    /\ Report([name |-> "returns", arg |-> <<>>], Silent, None, <<>>)

\* A signalled invocation is resumed with CancelledError and ends; its
\* record is no longer registered, so its exit drops nothing.
Terminate(h) ==
    /\ h \in running
    /\ cancelled[h] > 0
    /\ running' = running \ {h}
    /\ UNCHANGED <<tasks, task_count, cancelled, voice, root>>
    /\ Report([name |-> "terminate", arg |-> <<>>], Silent, None, <<>>)

ConcNext ==
    \/ Submit
    \/ \E k \in 1..MaxTasks : Complete(k)
    \/ \E argument \in Targets : cancel_suspends(argument)
    \/ tasks_suspends
    \/ \E i \in 1..MaxPending : send_returns(i)
    \/ \E h \in 1..MaxTasks : Terminate(h)

ConcSpec == Init /\ [][ConcNext]_vars

\* ============================================================ jsk status
\* The psutil calls that can raise AccessDenied.
PsutilCalls == {"Process", "memory_full_info", "name"}

\* What the status report reads from the process it runs in: whether
\* psutil was imported and which of its calls are denied, how the bot is
\* sharded (an automatically sharded bot runs shards 0 .. shards - 1),
\* the size of the message cache and the discord.py version.  Once
\* Process() is denied no later psutil call is made.
Hosts ==
    {h \in [psutil : BOOLEAN, denied : SUBSET PsutilCalls,
            sharding : {"auto", "manual", "none"}, shards : 0..MaxShards,
            max_messages : {0, 1000}, intents : BOOLEAN] :
        /\ ~h.psutil => h.denied = {}
        /\ "Process" \in h.denied => h.denied = {"Process"}
        /\ h.sharding # "auto" => h.shards = 0}

\* self.bot.shards.keys()
ShardIds(n) == [k \in 1..n |-> k - 1]

Line(kind) == [kind |-> kind]

\* Above how many shards the ids are no longer listed.
ShardListLimit == 20

\* len(self.bot.shards) > 20
TooManyShards_orEqual(n) == n >= ShardListLimit
TooManyShards(n) == n > ShardListLimit

\* The lines about the process: memory, then PID and threads, then a blank
\* line; a call that is denied inside the block drops its own line, a
\* denied Process() replaces the block by the notice.
ProcessLines_oneTry(host) ==
    IF ~host.psutil THEN <<>>
    ELSE IF host.denied # {} THEN <<Line("no access"), Line("")>>
    ELSE <<Line("memory"), Line("process"), Line("")>>

ProcessLines(host) ==
    IF ~host.psutil THEN <<>>
    ELSE IF "Process" \in host.denied
    THEN <<Line("no access"), Line("")>>
    ELSE (IF "memory_full_info" \in host.denied
          THEN <<>> ELSE <<Line("memory")>>)
         \o (IF "name" \in host.denied THEN <<>> ELSE <<Line("process")>>)
         \o <<Line("")>>

ShardLine(host) ==
    IF host.sharding = "auto" THEN
        IF TooManyShards(host.shards)
        THEN [kind |-> "automatically sharded", count |-> host.shards]
        ELSE [kind |-> "automatically sharded",
              ids |-> ShardIds(host.shards)]
    ELSE IF host.sharding = "manual" THEN Line("manually sharded")
    ELSE Line("not sharded")

CacheLine(host) ==
    [kind |-> "message cache",
     capped |-> host.max_messages # 0,
     and |-> IF host.intents THEN "intents" ELSE "guild subscriptions"]

jsk(host) ==
    /\ UNCHANGED <<registry, voice, root>>
    /\ Report([name |-> "jsk", arg |-> <<host>>], "summary",
              [lines |-> <<Line("versions"), Line("loaded"), Line("")>>
                           \o ProcessLines(host)
                           \o <<ShardLine(host), CacheLine(host),
                                Line("latency")>>],
              <<"send">>)

\* -------------------------------------------------- jsk hide, jsk show
\* if not self.jsk.hidden
AlreadyVisible_copied(h) == h
AlreadyVisible(h) == ~h

jsk_hide ==
    /\ UNCHANGED <<registry, voice, pending>>
    /\ IF hidden THEN
           /\ UNCHANGED hidden
           /\ Report([name |-> "hide", arg |-> <<>>],
                     "Jishaku is already hidden.", None, <<"send">>)
       ELSE
           /\ hidden' = TRUE
           /\ Report([name |-> "hide", arg |-> <<>>],
                     "Jishaku is now hidden.", None, <<"send">>)

jsk_show ==
    /\ UNCHANGED <<registry, voice, pending>>
    /\ IF AlreadyVisible(hidden) THEN
           /\ UNCHANGED hidden
           /\ Report([name |-> "show", arg |-> <<>>],
                     "Jishaku is already visible.", None, <<"send">>)
       ELSE
           /\ hidden' = FALSE
           /\ Report([name |-> "show", arg |-> <<>>],
                     "Jishaku is now visible.", None, <<"send">>)

\* The cog as loaded with either setting of the JISHAKU_HIDE flag.
RootInit ==
    /\ tasks = <<>>
    /\ task_count = 0
    /\ cancelled = [h \in 1..MaxTasks |-> 0]
    /\ op = [name |-> "start", arg |-> <<>>]
    /\ msg = Silent
    /\ reply = None
    /\ calls = <<>>
    /\ libs = [has_nacl |-> TRUE, opus |-> "loaded"]
    /\ voice_client = None
    /\ hidden \in BOOLEAN
    /\ running = {}
    /\ pending = <<>>

RootNext ==
    \/ \E host \in Hosts : jsk(host)
    \/ jsk_hide
    \/ jsk_show

RootSpec == RootInit /\ [][RootNext]_vars

\* ================================================== task registry claims
IsCancelOf(n) ==
    /\ op'.name = "cancel"
    /\ Convert(op'.arg).type = "int"
    /\ Convert(op'.arg).value = n

IsCancelAll == op'.name = "cancel" /\ op'.arg = <<"~">>

\* The set of indexes of the live records.
Live(seq) == {seq[k].index : k \in 1..Len(seq)}

\* The record submitted last: indexes are handed out in increasing order.
Newest(seq) ==
    CHOOSE t \in {seq[k] : k \in 1..Len(seq)} :
        \A k \in 1..Len(seq) : seq[k].index <= t.index

Without(seq, t) == SelectSeq(seq, LAMBDA u : u # t)

\* How often handle h is signalled by the step.
Signals(h) == cancelled'[h] - cancelled[h]

Handles == DOMAIN cancelled

\* A text that int() accepts: digits, optionally after one minus sign.
Numeric(a) ==
    LET d == {k \in 1..Len(a) : a[k] \in Digits}
    IN  /\ d # {}
        /\ \/ d = 1..Len(a)
           \/ a[1] = "-" /\ d = 2..Len(a)

\* C1: on a non-empty registry, cancel -1 removes exactly the record that
\* was inserted last, signals its handle exactly once and no other handle,
\* and keeps every other record, in the order they had.
C1_CancelLast ==
    [][ (IsCancelOf(-1) /\ tasks # <<>>) =>
            /\ msg' = "Cancelled task"
            /\ reply' = [index |-> Newest(tasks).index]
            /\ tasks' = Without(tasks, Newest(tasks))
            /\ Len(tasks') = Len(tasks) - 1
            /\ Signals(Newest(tasks).task) = 1
            /\ \A h \in Handles \ {Newest(tasks).task} : Signals(h) = 0
      ]_vars

C1_Witness ==
    /\ op.name = "cancel"
    /\ op.arg = <<"-", "1">>
    /\ msg = "Cancelled task"
    /\ reply = [index |-> 3]
    /\ Len(tasks) = 2
    /\ cancelled[3] = 1

\* C2: on a non-empty registry, cancel i with i # -1 and i the index of no
\* live record reports "Unknown task." and changes nothing: same records,
\* no handle signalled.
C2_UnknownTask ==
    [][ (/\ op'.name = "cancel" /\ Numeric(op'.arg) /\ tasks # <<>>
         /\ IntValue(op'.arg) # -1
         /\ IntValue(op'.arg) \notin Live(tasks)) =>
            /\ msg' = "Unknown task."
            /\ tasks' = tasks
            /\ \A h \in Handles : Signals(h) = 0
      ]_vars

C2_Witness ==
    /\ op.name = "cancel"
    /\ op.arg = <<"1">>
    /\ msg = "Unknown task."
    /\ tasks = <<CommandTask(2), CommandTask(3)>>

\* C3 as stated: cancel "~" on a registry of N records signals each of the
\* N handles, reports N and empties the registry; a second cancel "~"
\* right after it reports a count of 0.
C3_Original ==
    [][ /\ (IsCancelAll /\ tasks # <<>>) =>
              /\ msg' = "Cancelled N tasks."
              /\ reply' = [count |-> Len(tasks)]
              /\ tasks' = <<>>
              /\ \A h \in Handles :
                    Signals(h) = IF h \in Live(tasks) THEN 1 ELSE 0
        /\ (IsCancelAll /\ msg = "Cancelled N tasks.") =>
              /\ msg' = "Cancelled N tasks."
              /\ reply' = [count |-> 0]
      ]_vars

\* C3, amended: cancel "~" on a registry of N >= 1 records signals each of
\* the N handles once, reports N and empties the registry; a second
\* cancel "~" right after it signals nothing and reports
\* "No tasks to cancel." instead of a count.
C3_CancelAll ==
    [][ /\ (IsCancelAll /\ tasks # <<>>) =>
              /\ msg' = "Cancelled N tasks."
              /\ reply' = [count |-> Len(tasks)]
              /\ tasks' = <<>>
              /\ \A h \in Handles :
                    Signals(h) = IF h \in Live(tasks) THEN 1 ELSE 0
        /\ (IsCancelAll /\ msg = "Cancelled N tasks.") =>
              /\ tasks = <<>>
              /\ msg' = "No tasks to cancel."
              /\ reply' = None
              /\ tasks' = <<>>
              /\ \A h \in Handles : Signals(h) = 0
      ]_vars

C3_Witness ==
    /\ op.name = "cancel"
    /\ op.arg = <<"~">>
    /\ msg = "No tasks to cancel."
    /\ \A h \in 1..2 : cancelled[h] = 1

\* C4 as stated: in every registry state, the empty one included, cancel
\* with a non-numeric text other than "~" raises BadArgument before any
\* lookup and changes nothing; "~" is never rejected so and always means
\* cancel-all.
C4_Original ==
    [][ /\ (op'.name = "cancel" /\ ~Numeric(op'.arg) /\ op'.arg # <<"~">>) =>
              /\ msg' = "BadArgument"
              /\ calls' = <<>>
              /\ tasks' = tasks
              /\ \A h \in Handles : Signals(h) = 0
        /\ IsCancelAll =>
              /\ msg' # "BadArgument"
              /\ tasks' = <<>>
              /\ \A h \in Handles :
                    Signals(h) = IF h \in Live(tasks) THEN 1 ELSE 0
      ]_vars

\* C4, amended: in every non-empty registry state, cancel with a
\* non-numeric text other than "~" raises BadArgument before any lookup
\* and changes nothing, and "~" means cancel-all; on the empty registry
\* every argument, non-numeric or "~", is answered with
\* "No tasks to cancel." and changes nothing; "~" is never rejected with
\* BadArgument.
C4_BadArgument ==
    [][ /\ (/\ op'.name = "cancel" /\ tasks # <<>>
            /\ ~Numeric(op'.arg) /\ op'.arg # <<"~">>) =>
              /\ msg' = "BadArgument"
              /\ calls' = <<>>
              /\ tasks' = tasks
              /\ \A h \in Handles : Signals(h) = 0
        /\ (op'.name = "cancel" /\ tasks = <<>>) =>
              /\ msg' = "No tasks to cancel."
              /\ tasks' = tasks
              /\ \A h \in Handles : Signals(h) = 0
        /\ IsCancelAll =>
              /\ msg' # "BadArgument"
              /\ tasks' = <<>>
              /\ \A h \in Handles :
                    Signals(h) = IF h \in Live(tasks) THEN 1 ELSE 0
      ]_vars

C4_Witness ==
    /\ op.name = "cancel"
    /\ op.arg = <<"a">>
    /\ msg = "BadArgument"
    /\ Len(tasks) = 2
    /\ \A h \in Live(tasks) : cancelled[h] = 0

\* C5: on the empty registry, tasks and cancel (whatever the argument)
\* stop at once with their nothing-to-do report, which is not the
\* not-found report, change nothing, and neither pop nor look up; the
\* not-found report is only ever given on a non-empty registry.
C5_EmptyShortCircuit ==
    [][ /\ (tasks = <<>> /\ op'.name = "tasks") =>
              /\ msg' = "No currently running tasks."
              /\ calls' = <<"send">>
              /\ tasks' = tasks
              /\ \A h \in Handles : Signals(h) = 0
        /\ (tasks = <<>> /\ op'.name = "cancel") =>
              /\ msg' = "No tasks to cancel."
              /\ calls' = <<"send">>
              /\ tasks' = tasks
              /\ \A h \in Handles : Signals(h) = 0
        /\ (op'.name \in {"tasks", "cancel"} /\ msg' = "Unknown task.") =>
              tasks # <<>>
      ]_vars

C5_Witness ==
    /\ op.name = "cancel"
    /\ op.arg = <<"-", "1">>
    /\ msg = "No tasks to cancel."
    /\ tasks = <<>>
    /\ task_count = 2

\* C6: however insertions, completions and cancellations interleave, the
\* tasks command lists exactly the live records, in the order they were
\* inserted, and no two live records share an index.
C6_ListInOrder ==
    [][ (op'.name = "tasks" /\ tasks # <<>>) =>
          LET lines == reply'.lines IN
            /\ msg' = "paginator"
            /\ Len(lines) = Len(tasks)
            /\ {lines[k] : k \in 1..Len(lines)} = Live(tasks)
            /\ \A j, k \in 1..Len(lines) : j < k => lines[j] < lines[k]
            /\ Cardinality(Live(tasks)) = Len(tasks)
      ]_vars

C6_Witness ==
    /\ op.name = "tasks"
    /\ msg = "paginator"
    /\ reply = [lines |-> <<1, 3>>]
    /\ cancelled[2] = 1

\* ========================================================== voice claims
StopClass == {"stop", "pause", "resume", "volume"}

\* The calls that change the voice session.
Mutators ==
    {"connect", "move_to", "disconnect", "play", "stop", "pause", "resume",
     "volume"}

Made(c) == \E k \in 1..Len(calls') : calls'[k] = c

Aborted ==
    /\ voice_client' = voice_client
    /\ \A k \in 1..Len(calls') : calls'[k] \notin Mutators

Connected == voice_client # None /\ voice_client.connected

\* C7: stop, pause, resume and volume, run without an active voice
\* connection, report the not-connected message without ever asking whether
\* something is playing; run while connected and idle, they report the
\* not-playing message; either way the command aborts.
C7_GuardOrder ==
    [][ /\ (op'.name \in StopClass /\ ~Connected) =>
              /\ msg' = NotConnected
              /\ ~Made("is_playing")
              /\ Aborted
        /\ (op'.name \in StopClass /\ Connected
                /\ voice_client.player = "idle") =>
              /\ msg' = NotPlaying
              /\ Aborted
      ]_vars

C7_Witness ==
    /\ op.name = "stop"
    /\ msg = NotConnected
    /\ calls = <<"is_connected", "send">>
    /\ voice_client # None
    /\ voice_client.player = "playing"

\* C8: pause on a source that is already paused reports "already paused"
\* and does not call pause on the voice client; resume on a source that is
\* playing and not paused reports "not paused" and does not call resume.
C8_Claim ==
    [][ /\ (op'.name = "pause" /\ Connected
                /\ voice_client.player = "paused") =>
              /\ msg' = "Audio is already paused."
              /\ ~Made("pause")
        /\ (op'.name = "resume" /\ Connected
                /\ voice_client.player = "playing") =>
              /\ msg' = "Audio is not paused."
              /\ ~Made("resume")
      ]_vars

\* The value of percentage / 100 clamped into [0.0, 1.0], in hundredths.
Expected(p) == IF p <= 0 THEN 0 ELSE IF p >= 100 THEN One ELSE p

\* C9: volume p on a playing source with volume control stores p / 100
\* clamped into [0, 1]: -50, 0, 50, 100 and 150 store 0, 0, 0.5, 1 and 1.
C9_VolumeClamp ==
    [][ (/\ op'.name = "volume" /\ Connected
         /\ voice_client.player = "playing"
         /\ voice_client.source.type = "PCMVolumeTransformer") =>
          LET p == op'.arg[1]
              stored == voice_client'.source.volume
          IN  /\ msg' = "Volume set to"
              /\ stored = Expected(p)
              /\ 0 <= stored /\ stored <= One
              /\ p = -50 => stored = 0
              /\ p = 0 => stored = 0
              /\ p = 50 => 2 * stored = One
              /\ p = 100 => stored = One
              /\ p = 150 => stored = One
      ]_vars

C9_Witness ==
    /\ op.name = "volume"
    /\ op.arg = <<-50>>
    /\ msg = "Volume set to"
    /\ voice_client.source.volume = 0

\* C10: volume on a playing source without volume control reports the
\* unsupported message, which is neither the not-connected nor the
\* not-playing one, and leaves the source as it was.
C10_Unsupported ==
    [][ (/\ op'.name = "volume" /\ Connected
         /\ voice_client.player = "playing"
         /\ voice_client.source.type # "PCMVolumeTransformer") =>
            /\ msg' = Unsupported
            /\ Unsupported \notin {NotConnected, NotPlaying}
            /\ voice_client' = voice_client
      ]_vars

C10_Witness ==
    /\ op.name = "volume"
    /\ op.arg = <<50>>
    /\ msg = Unsupported
    /\ voice_client.source = AudioSource
    /\ voice_client.player = "playing"

\* Call a is made before call b.
Before(a, b) ==
    \E j, k \in 1..Len(calls') : j < k /\ calls'[j] = a /\ calls'[k] = b

\* C11: play on a connected session, whether idle, playing or paused,
\* stops the active source before it starts the new one and ends with the
\* new volume-adjustable source playing; play without a connection reports
\* not-connected and starts nothing.
C11_Claim ==
    [][ /\ (op'.name = "play" /\ Connected) =>
              /\ voice_client.player # "idle" => Before("stop", "play")
              /\ Made("play")
              /\ voice_client'.player = "playing"
              /\ voice_client'.source.type = "PCMVolumeTransformer"
        /\ (op'.name = "play" /\ ~Connected) =>
              /\ msg' = NotConnected
              /\ Aborted
      ]_vars

\* A URI that neither starts with "<" nor ends with ">".
Clean(uri) == uri[1] # "<" /\ uri[Len(uri)] # ">"

\* C12: for every URI u that neither starts with "<" nor ends with ">",
\* play <u> and play u both build the source from exactly u; what is
\* stored is already stripped: playing it again stores the same URI.
C12_UriStrip ==
    [][ (op'.name = "play" /\ Connected) =>
          LET stored == voice_client'.source.uri IN
            /\ \A u \in Uris :
                  (Clean(u) /\ op'.arg \in {u, Wrap(u)}) => stored = u
            /\ stored = <<>> \/ Clean(stored)
            /\ (/\ voice_client.source # None
                /\ voice_client.source.type = "PCMVolumeTransformer"
                /\ op'.arg = voice_client.source.uri) => stored = op'.arg
      ]_vars

C12_Witness ==
    /\ op.name = "play"
    /\ op.arg = <<"<", "a", ">">>
    /\ msg = "Playing in"
    /\ voice_client.source.uri = <<"a">>

CapabilityOk == libs.has_nacl /\ libs.opus \in {"loaded", "default loads"}

Resolves(destination) ==
    destination.type = "VoiceChannel" \/ destination.channel # "nowhere"

\* C13: a join whose destination resolves to a channel moves the session
\* the guild already has and connects only when it has none, so a second
\* session is never opened; no join calls both connect and move_to.
C13_JoinMovesOrConnects ==
    [][ (op'.name = "join" /\ CapabilityOk /\ Resolves(op'.arg[1])) =>
          /\ voice_client # None =>
                /\ Made("move_to") /\ ~Made("connect")
                /\ voice_client' =
                       [voice_client EXCEPT !.channel = op'.arg[1].channel]
          /\ voice_client = None =>
                /\ Made("connect") /\ ~Made("move_to")
                /\ voice_client' # None
                /\ voice_client'.channel = op'.arg[1].channel
          /\ Made("connect") => voice_client = None
          /\ ~(Made("connect") /\ Made("move_to"))
      ]_vars

C13_Witness ==
    /\ op.name = "join"
    /\ op.arg = <<[type |-> "Member", channel |-> "music"]>>
    /\ calls = <<"is_loaded", "move_to", "send">>
    /\ voice_client # None
    /\ ~voice_client.connected
    /\ voice_client.channel = "music"

Sends == Len(SelectSeq(calls', LAMBDA c : c = "send"))

\* The guard of the command that runs in this step is unmet, or the step
\* is a join that resolves a member who is in no voice channel.
GuardUnmet ==
    \/ op'.name \in {"join", "voice"} /\ ~CapabilityOk
    \/ op'.name \in {"disconnect", "play"} /\ ~Connected
    \/ op'.name \in StopClass
           /\ (~Connected \/ voice_client.player # "playing")
    \/ op'.name = "join" /\ CapabilityOk /\ ~Resolves(op'.arg[1])

\* C18: a voice command whose guard is unmet, and a join that resolves a
\* member without a voice channel, send exactly one message and abort:
\* no mutating call is made on the voice client and the voice session is
\* as it was.
C18_GuardFrame ==
    [][ GuardUnmet =>
            /\ Sends = 1
            /\ msg' # Silent
            /\ Aborted
      ]_vars

C18_Witness ==
    /\ op.name = "disconnect"
    /\ msg = NotConnected
    /\ calls = <<"is_connected", "send">>
    /\ voice_client # None
    /\ voice_client.player = "paused"

\* C19: from a connected session with a source playing, pause succeeds
\* and leaves it paused; a resume issued next passes its guards, calls
\* resume and leaves it playing; a stop issued while paused leaves it idle.
C19_Claim ==
    [][ /\ (op'.name = "pause" /\ Connected
                /\ voice_client.player = "playing") =>
              /\ msg' = "Paused audio"
              /\ voice_client'.player = "paused"
        /\ (/\ op.name = "pause" /\ msg = "Paused audio"
            /\ op'.name = "resume" /\ Connected
            /\ voice_client.player = "paused") =>
              /\ msg' = "Resumed audio"
              /\ Made("resume")
              /\ voice_client'.player = "playing"
        /\ (op'.name = "stop" /\ Connected
                /\ voice_client.player = "paused") =>
              /\ Made("stop")
              /\ voice_client'.player = "idle"
      ]_vars

\* ==================================================== concurrency claims
\* C16: at every point where a cancel or tasks handler is suspended, no
\* record is both registered and signalled, a record that has left the
\* registry while its invocation has not ended by itself has been
\* signalled by a cancel, no handle is signalled more than once, and no
\* handler has failed taking a record out of the registry.
C16_AtomicCancel ==
    /\ \A h \in 1..task_count :
          /\ cancelled[h] <= 1
          /\ h \in Live(tasks) => cancelled[h] = 0
          /\ (h \notin Live(tasks) /\ h \in running) => cancelled[h] = 1
          /\ h \in Live(tasks) => h \in running
    /\ msg \notin {"IndexError", "ValueError"}

C16_Witness ==
    /\ Len(pending) = 2
    /\ pending[1].name = "cancel"
    /\ pending[2].name = "cancel"
    /\ pending[1].signalled # {}
    /\ pending[2].signalled # {}
    /\ pending[1].signalled \cup pending[2].signalled \subseteq running
    /\ tasks # <<>>

\* The calls a cancel makes: none of them waits for the cancelled work.
CancelCalls == {"get", "pop", "remove", "clear", "cancel", "send"}

\* C17: a cancel signals the handles before it sends its acknowledgement,
\* changes nothing but the registry and the signalled handles, and from
\* then on can always return, whether or not the cancelled work has
\* ended.
C17_FireAndForget ==
    /\ [][ op'.name = "cancel" =>
               /\ UNCHANGED <<voice, hidden, task_count, running>>
               /\ \A k \in 1..Len(calls') : calls'[k] \in CancelCalls
               /\ (\E h \in Handles : Signals(h) > 0) =>
                     /\ Before("cancel", "send")
                     /\ calls'[Len(calls')] = "send"
                     /\ pending' =
                            Append(pending,
                                   Suspended("cancel",
                                             {h \in Handles : Signals(h) > 0}))
         ]_vars
    /\ [](\A i \in 1..Len(pending) : ENABLED send_returns(i))

C17_Witness ==
    /\ op.name = "returns"
    /\ pending = <<>>
    /\ \E h \in Handles : cancelled[h] > 0 /\ h \in running

\* ============================================================ root claims
Host == op'.arg[1]
Lines == reply'.lines
Kinds == {Lines[k].kind : k \in 1..Len(Lines)}
Count(kind) == Cardinality({k \in 1..Len(Lines) : Lines[k].kind = kind})

\* The shard line of the report.
TheShardLine ==
    Lines[CHOOSE k \in 1..Len(Lines) :
              Lines[k].kind = "automatically sharded"]

\* C14: the report of an automatically sharded bot with more than 20
\* shards gives the number of shards and no list of ids; with 20 shards
\* or fewer it lists every shard id.
C14_ShardLine ==
    [][ (op'.name = "jsk" /\ Host.sharding = "auto") =>
            LET n == Host.shards
                line == TheShardLine
            IN  /\ Count("automatically sharded") = 1
                /\ n > 20 =>
                      /\ DOMAIN line = {"kind", "count"}
                      /\ line.count = n
                /\ n <= 20 =>
                      /\ DOMAIN line = {"kind", "ids"}
                      /\ Len(line.ids) = n
                      /\ {line.ids[k] : k \in 1..n} = 0..(n - 1)
      ]_vars

C14_Witness ==
    /\ op.name = "jsk"
    /\ op.arg[1].sharding = "auto"
    /\ op.arg[1].shards = 21
    /\ \E k \in 1..Len(reply.lines) :
          reply.lines[k] = [kind |-> "automatically sharded", count |-> 21]

\* The report went out whole: sent, with its shard, cache and latency
\* lines, and no error raised.
Produced ==
    /\ msg' = "summary"
    /\ calls' = <<"send">>
    /\ Count("message cache") = 1
    /\ Count("latency") = 1
    /\ \E kind \in {"automatically sharded", "manually sharded",
                    "not sharded"} : Count(kind) = 1

PartlyDenied ==
    /\ Host.psutil
    /\ "Process" \notin Host.denied
    /\ Host.denied # {}

\* C15 as stated: with psutil present and access denied for part of the
\* process info, the report leaves out only that part, says once that the
\* capability is limited, and is still sent whole.
C15_Original ==
    [][ (op'.name = "jsk" /\ PartlyDenied) =>
            /\ Count("memory") =
                   IF "memory_full_info" \in Host.denied THEN 0 ELSE 1
            /\ Count("process") = IF "name" \in Host.denied THEN 0 ELSE 1
            /\ Count("no access") = 1
            /\ Produced
      ]_vars

\* C15, amended: with psutil present and access denied for part of the
\* process info (memory, or name and threads), the report leaves out only
\* that part and says nothing about it; when the process itself cannot be
\* opened it leaves out both parts and says once that access is too low;
\* in every case the report is sent whole and no denial raises an error.
C15_Degrades ==
    [][ /\ (op'.name = "jsk" /\ PartlyDenied) =>
              /\ Count("memory") =
                     IF "memory_full_info" \in Host.denied THEN 0 ELSE 1
              /\ Count("process") = IF "name" \in Host.denied THEN 0 ELSE 1
              /\ Count("no access") = 0
        /\ (op'.name = "jsk" /\ Host.psutil /\ "Process" \in Host.denied) =>
              /\ Count("memory") = 0
              /\ Count("process") = 0
              /\ Count("no access") = 1
        /\ op'.name = "jsk" => Produced
      ]_vars

C15_Witness ==
    /\ op.name = "jsk"
    /\ op.arg[1].psutil
    /\ op.arg[1].denied = {"memory_full_info"}
    /\ msg = "summary"
    /\ \E k \in 1..Len(reply.lines) : reply.lines[k] = Line("process")
    /\ \A k \in 1..Len(reply.lines) :
          reply.lines[k].kind \notin {"memory", "no access"}

\* C20: the hidden flag changes only in hide and show; hide leaves it set
\* and show leaves it clear; hide when hidden and show when visible say
\* so and change nothing; hence hide then show ends visible, show then
\* hide ends hidden, and running either twice changes nothing more.
C20_HideShow ==
    [][ /\ hidden' # hidden => op'.name \in {"hide", "show"}
        /\ op'.name = "hide" =>
              /\ hidden'
              /\ msg' = IF hidden THEN "Jishaku is already hidden."
                        ELSE "Jishaku is now hidden."
        /\ op'.name = "show" =>
              /\ ~hidden'
              /\ msg' = IF hidden THEN "Jishaku is now visible."
                        ELSE "Jishaku is already visible."
        /\ (op.name = "hide" /\ op'.name = "show") => ~hidden'
        /\ (op.name = "show" /\ op'.name = "hide") => hidden'
        /\ (op.name = op'.name /\ op'.name \in {"hide", "show"}) =>
              hidden' = hidden
      ]_vars

C20_Witness ==
    /\ op.name = "show"
    /\ msg = "Jishaku is now visible."
    /\ ~hidden

====
